---- MODULE Spec2Model ----
(***************************************************************************)
(* Finance_App_Backend: budgets recomputed from transactions, budget       *)
(* alerts, period archiving, savings goals, e-mail verification and        *)
(* password-reset tokens, recurring bills.                                 *)
(*                                                                         *)
(* Money is counted in whole units of the smallest amount a request can    *)
(* carry.  Time is counted in ticks, TicksPerSecond of them to a second    *)
(* (timestamps are finer than the one second that set_period_dates         *)
(* subtracts).  The calendar has DaysPerMonth days in every month.         *)
(***************************************************************************)
EXTENDS Integers, FiniteSets, Sequences, TLC

VARIABLES
    now,                 \* timezone.now()
    transactions,        \* rows of transactions.Transaction
    budgets,             \* rows of budgets.Budget, by id
    budgetHistory,       \* rows of budgets.BudgetHistory
    alerts,              \* rows of budgets.BudgetAlert
    taskQueue,           \* create_budget_alert messages waiting for a worker
    savingsAccounts,     \* rows of savings.SavingsAccount, by user
    savingsTransactions, \* rows of savings.SavingsTransaction
    goals,               \* rows of savings.SavingsGoal, by id
    allocations,         \* rows of savings.SavingsAllocation
    savingsSettings,     \* rows of savings.SavingsSettings, by user
    users,               \* rows of authentication.User, by id
    verifyTokens,        \* rows of authentication.EmailVerificationToken
    resetTokens,         \* rows of authentication.PasswordResetToken
    profiles,            \* rows of authentication.UserProfile, in order of creation
    bills,               \* rows of recurring_bills.RecurringBill
    billSeq,             \* the last id the table of bills gave out
    budgetRequests,      \* transaction requests in progress: where each one is
    savingsRequests,     \* savings requests in progress: where each one is
    response             \* what the last request or task returned

budgetVars  == <<transactions, budgets, budgetHistory, alerts, taskQueue>>
savingsVars == <<savingsAccounts, savingsTransactions, goals, allocations, savingsSettings>>
authVars    == <<users, verifyTokens, resetTokens, profiles>>
billVars    == <<bills, billSeq>>
requestVars == <<budgetRequests, savingsRequests>>
vars == <<now, requestVars, budgetVars, savingsVars, authVars, billVars, response>>

---------------------------------------------------------------------------
(* Bounds of the model *)

TicksPerSecond == 2
DaysPerMonth   == 2
MaxAmount      == 2
MaxQueue       == 1
\* ticks the clock runs past an instant a claim is about
MaxSkew        == 1
\* rows a savings ledger holds at most
MaxLedger      == 3
\* BudgetHistory rows kept at most
MaxHistory     == 6
\* recurring bills created at most
MaxBills       == 3

---------------------------------------------------------------------------
(* Time *)

Second == TicksPerSecond
Minute == 60 * Second
Hour   == 60 * Minute
Day    == 24 * Hour
Month  == DaysPerMonth * Day

\* datetime -> date, as a DateField lookup converts its datetime argument
DateOf(t) == t \div Day

Min(a, b) == IF a < b THEN a ELSE b
Max(a, b) == IF a > b THEN a ELSE b

---------------------------------------------------------------------------
(* Identifiers *)

Users       == {"u1", "u2"}
CategoryIds == {"c1", "c2"}
NoCategory  == "null"
TxnIds      == {"t1", "t2"}
BudgetIds   == {"b1", "b2", "b3"}

\* rows of transactions.Category
Category ==
    [c1 |-> [name |-> "Food", icon |-> "$"],
     c2 |-> [name |-> "Rent", icon |-> "$"]]

\* Category.__str__; a CharField lookup given a model instance compares
\* with str(instance)
CategoryStr(c) == Category[c].icon \o " " \o Category[c].name

---------------------------------------------------------------------------
(* Budget properties *)

\* Budget.percentage_used >= alert_threshold, without the floats:
\* spent / limit * 100 >= threshold  <=>  spent * 100 >= threshold * limit
is_alert_threshold_reached(b) ==
    IF b.limit = 0
        THEN 0 >= b.alert_threshold
        ELSE b.spent * 100 >= b.alert_threshold * b.limit

is_over_budget(b) == b.spent > b.limit

RECURSIVE SumAmounts(_)
SumAmounts(S) ==
    IF S = {} THEN 0
    ELSE LET t == CHOOSE x \in S : TRUE
         IN  t.amount + SumAmounts(S \ {t})

\* a faulty variant: income counted as spending
SpentFilterAnyType(txns, user, category, b) ==
    {t \in txns : /\ t.user = user
                  /\ t.category = category
                  /\ t.date >= DateOf(b.period_start)
                  /\ t.date <= DateOf(b.period_end)}

\* the filter of recalc_budget's aggregate
SpentFilter(txns, user, category, b) ==
    {t \in txns : /\ t.user = user
                  /\ t.category = category
                  /\ t.type = "expense"
                  /\ t.date >= DateOf(b.period_start)
                  /\ t.date <= DateOf(b.period_end)}

\* Budget.objects.get(user=user, category=category, status="active");
\* unique_together (user, category, status) leaves at most one
BudgetLookup(bs, user, category) ==
    {b \in BudgetIds : /\ bs[b].user = user
                       /\ bs[b].category = CategoryStr(category)
                       /\ bs[b].status = "active"}

QueueAdd(q, b) == [q EXCEPT ![b] = @ + 1]
QueueSize(q) == q["b1"] + q["b2"] + q["b3"]

\* recalc_budget(user, category) on st = [budgets, queue], the transaction
\* table being txns
recalc_budget(st, txns, user, category) ==
    IF category = NoCategory THEN st
    ELSE LET found == BudgetLookup(st.budgets, user, category)
         IN  IF found = {} THEN st
             ELSE LET b  == CHOOSE x \in found : TRUE
                      nb == [st.budgets[b] EXCEPT
                                !.spent = SumAmounts(SpentFilter(txns, user, category, st.budgets[b]))]
                  IN  [budgets |-> [st.budgets EXCEPT ![b] = nb],
                       queue   |-> IF is_alert_threshold_reached(nb) \/ is_over_budget(nb)
                                       THEN QueueAdd(st.queue, b)
                                       ELSE st.queue]

\* Budget.set_period_dates at time t
set_period_dates(b, t) ==
    LET m == t \div Month
    IN  IF b.period = "monthly"
            THEN [b EXCEPT !.period_start = m * Month,
                           !.period_end   = m * Month + Month - Second]
        ELSE IF b.period = "quarterly"
            THEN [b EXCEPT !.period_start = ((m \div 3) * 3) * Month,
                           !.period_end   = ((m \div 3) * 3) * Month + 3 * Month - Second]
        ELSE IF b.period = "yearly"
            THEN [b EXCEPT !.period_start = ((m \div 12) * 12) * Month,
                           !.period_end   = ((m \div 12) * 12) * Month + 12 * Month - Second]
        ELSE b

\* Budget.objects.create(...) at time t: save() sets the period dates
NewBudget(user, category, limit, threshold, period, t) ==
    set_period_dates(
        [user |-> user, category |-> category, limit |-> limit, spent |-> 0,
         alert_threshold |-> threshold, period |-> period, status |-> "active",
         period_start |-> 0, period_end |-> 0], t)

---------------------------------------------------------------------------
(* Savings: model methods.  sv = [accounts, stx, goals, allocs] *)

GoalIds == {"g1", "g2"}

\* SavingsAccount.objects.get_or_create(user=..., defaults={'balance': 0})
NewAccount ==
    [exists |-> TRUE, balance |-> 0,
     auto_save_percentage |-> 20, is_auto_save_enabled |-> TRUE]

GetOrCreateAccount(sv, u) ==
    IF sv.accounts[u].exists THEN sv
    ELSE [sv EXCEPT !.accounts[u] = NewAccount]

\* a faulty variant: the account is not credited
AccountAddFundsUncredited(sv, u, amount) == sv

\* SavingsAccount.add_funds
AccountAddFunds(sv, u, amount) ==
    IF amount > 0
        THEN LET old == sv.accounts[u].balance
             IN  [sv EXCEPT
                    !.accounts[u].balance = old + amount,
                    !.stx = Append(@, [account |-> u, transaction_type |-> "deposit",
                                       amount |-> amount, balance_before |-> old,
                                       balance_after |-> old + amount,
                                       reference_transaction_id |-> "null"])]
        ELSE sv

\* SavingsAccount.can_withdraw
AccountCanWithdraw(sv, u, amount) == sv.accounts[u].balance >= amount

\* SavingsAccount.withdraw_funds: its return value, then its effect
AccountWithdrawOk(sv, u, amount) == amount > 0 /\ sv.accounts[u].balance >= amount

AccountWithdrawFunds(sv, u, amount) ==
    IF AccountWithdrawOk(sv, u, amount)
        THEN LET old == sv.accounts[u].balance
             IN  [sv EXCEPT
                    !.accounts[u].balance = old - amount,
                    !.stx = Append(@, [account |-> u, transaction_type |-> "withdrawal",
                                       amount |-> amount, balance_before |-> old,
                                       balance_after |-> old - amount,
                                       reference_transaction_id |-> "null"])]
        ELSE sv

\* SavingsGoal.is_completed
is_completed(g) == g.current_amount >= g.target_amount

\* SavingsGoal.remaining_amount
remaining_amount(g) == Max(0, g.target_amount - g.current_amount)

\* SavingsGoal.progress_percentage, in whole percents
progress_percentage(g) ==
    IF g.target_amount = 0 THEN 100
    ELSE Min(100, (g.current_amount * 100) \div g.target_amount)

\* SavingsGoal.add_funds (returns amount > 0)
GoalAddFunds(sv, gid, amount, source) ==
    IF amount > 0
        THEN LET g   == sv.goals[gid]
                 g1  == [g EXCEPT !.current_amount = @ + amount]
                 g2  == IF ~g1.completed_at_set /\ is_completed(g1)
                            THEN [g1 EXCEPT !.status = "completed", !.completed_at_set = TRUE]
                            ELSE g1
             IN  [sv EXCEPT
                    !.goals[gid] = g2,
                    !.allocs = Append(@, [goal |-> gid, amount |-> amount,
                                          allocation_type |-> "deposit", source |-> source,
                                          balance_before |-> g.current_amount,
                                          balance_after |-> g2.current_amount])]
        ELSE sv

\* SavingsGoal.can_withdraw
GoalCanWithdraw(sv, gid, amount) == sv.goals[gid].current_amount >= amount

\* SavingsGoal.withdraw_funds: its return value, then its effect
GoalWithdrawOk(sv, gid, amount) == amount > 0 /\ sv.goals[gid].current_amount >= amount

GoalWithdrawFunds(sv, gid, amount) ==
    IF GoalWithdrawOk(sv, gid, amount)
        THEN LET g   == sv.goals[gid]
                 g1  == [g EXCEPT !.current_amount = @ - amount]
                 g2  == IF g1.status = "completed" /\ ~is_completed(g1)
                            THEN [g1 EXCEPT !.status = "active", !.completed_at_set = FALSE]
                            ELSE g1
             IN  [sv EXCEPT
                    !.goals[gid] = g2,
                    !.allocs = Append(@, [goal |-> gid, amount |-> amount,
                                          allocation_type |-> "withdrawal", source |-> "manual",
                                          balance_before |-> g.current_amount,
                                          balance_after |-> g2.current_amount])]
        ELSE sv


---------------------------------------------------------------------------
(* Savings: automatic saving of income *)

\* order_by('priority', ...) orders the stored strings
PriorityRank == [high |-> 1, low |-> 2, medium |-> 3, urgent |-> 4]

\* the auto_goals queryset of auto_allocate_to_goals, in its order
AutoGoals(sv, u) ==
    LET S == {g \in GoalIds : /\ sv.goals[g].user = u
                              /\ sv.goals[g].status = "active"
                              /\ sv.goals[g].auto_allocate_enabled
                              /\ sv.goals[g].auto_allocate_percentage > 0}
        Before(a, b) ==
            \/ PriorityRank[sv.goals[a].priority] < PriorityRank[sv.goals[b].priority]
            \/ /\ sv.goals[a].priority = sv.goals[b].priority
               /\ sv.goals[a].created_at <= sv.goals[b].created_at
    IN  CHOOSE q \in [1..Cardinality(S) -> S] :
            /\ \A i, j \in 1..Cardinality(S) : i < j => (q[i] # q[j] /\ Before(q[i], q[j]))

RECURSIVE SumPercentages(_, _)
SumPercentages(sv, q) ==
    IF q = <<>> THEN 0
    ELSE sv.goals[Head(q)].auto_allocate_percentage + SumPercentages(sv, Tail(q))

\* the loop of auto_allocate_to_goals over the goals q, their rows as the
\* queryset returned them (rows0); amount = [total, remaining]
RECURSIVE AutoAllocateLoop(_, _, _, _, _, _)
AutoAllocateLoop(sv, rows0, u, amount, total, q) ==
    IF q = <<>> THEN sv
    ELSE LET gid  == Head(q)
             goal == rows0[gid]
             allocation_amount == (amount.total * goal.auto_allocate_percentage) \div total
             max_allocation == Min(Min(allocation_amount, remaining_amount(goal)), amount.remaining)
         IN  IF amount.remaining <= 0 THEN sv
             ELSE IF max_allocation > 0 /\ AccountWithdrawOk(sv, u, max_allocation)
                 THEN AutoAllocateLoop(
                        GoalAddFunds(AccountWithdrawFunds(sv, u, max_allocation),
                                     gid, max_allocation, "auto_allocation"),
                        rows0, u,
                        [amount EXCEPT !.remaining = @ - max_allocation], total, Tail(q))
                 ELSE AutoAllocateLoop(sv, rows0, u, amount, total, Tail(q))

\* auto_allocate_to_goals(savings_account, amount)
auto_allocate_to_goals(sv, u, amount) ==
    LET q     == AutoGoals(sv, u)
        total == SumPercentages(sv, q)
    IN  IF q = <<>> \/ total <= 0 THEN sv
        ELSE AutoAllocateLoop(sv, sv.goals, u,
                              [total |-> amount, remaining |-> amount], total, q)

\* the body of auto_save_on_income for a created income transaction
auto_save_on_income(sv, settings, txn) ==
    LET sv1  == GetOrCreateAccount(sv, txn.user)
        acct == sv1.accounts[txn.user]
        auto_save_enabled ==
            IF settings[txn.user].exists THEN settings[txn.user].auto_save_enabled
            ELSE acct.is_auto_save_enabled
        auto_save_percentage ==
            IF settings[txn.user].exists THEN settings[txn.user].auto_save_percentage
            ELSE acct.auto_save_percentage
        savings_amount == (txn.amount * auto_save_percentage) \div 100
        sv2 == [sv1 EXCEPT
                  !.accounts[txn.user].balance = @ + savings_amount,
                  !.stx = Append(@, [account |-> txn.user, transaction_type |-> "auto_save",
                                     amount |-> savings_amount,
                                     balance_before |-> acct.balance,
                                     balance_after |-> acct.balance + savings_amount,
                                     reference_transaction_id |-> txn.id])]
    IN  IF ~auto_save_enabled \/ auto_save_percentage <= 0 THEN sv1
        ELSE auto_allocate_to_goals(sv2, txn.user, savings_amount)

---------------------------------------------------------------------------
(* Signals *)

\* the label under which transactions.Transaction is registered
TransactionModel == "transactions.Transaction"

\* the @receiver registrations: budgets/signals.py names the model class,
\* savings/signals.py names a model by label
Registrations ==
    {[signal |-> "pre_save",    sender |-> TransactionModel,      receiver |-> "track_old_category"],
     [signal |-> "post_save",   sender |-> TransactionModel,      receiver |-> "update_budget_spent_on_transaction_save"],
     [signal |-> "post_delete", sender |-> TransactionModel,      receiver |-> "update_budget_spent_on_transaction_delete"],
     [signal |-> "post_save",   sender |-> "finance.Transaction", receiver |-> "auto_save_on_income"]}

\* the receivers a signal sent by a model reaches: a registration by label is
\* connected when a model of that label is registered
Receivers(signal, model) ==
    {r.receiver : r \in {x \in Registrations : x.signal = signal /\ x.sender = model}}

SavingsState ==
    [accounts |-> savingsAccounts, stx |-> savingsTransactions,
     goals |-> goals, allocs |-> allocations]

SetSavings(sv) ==
    /\ savingsAccounts' = sv.accounts
    /\ savingsTransactions' = sv.stx
    /\ goals' = sv.goals
    /\ allocations' = sv.allocs


---------------------------------------------------------------------------
(* Transactions: the requests of TransactionViewSet *)

\* a faulty variant: an expense that takes a budget of its category over the limit is
\* refused
TransactionValidWithinBudget(d) ==
    /\ d.amount >= 1
    /\ ~(/\ d.type = "expense"
         /\ d.category # NoCategory
         /\ \E b \in BudgetIds : /\ budgets[b].category = CategoryStr(d.category)
                                 /\ budgets[b].spent + d.amount > budgets[b].limit)

\* TransactionSerializer: amount has MinValueValidator(0.01)
TransactionValid(d) == d.amount >= 1

TxnRow(id, user, d) ==
    [id |-> id, user |-> user, category |-> d.category, type |-> d.type,
     amount |-> d.amount, date |-> d.date]

\* a faulty variant: only the category the row has now is recomputed
OnTransactionSaveNewOnly(st, txns, row, old) ==
    recalc_budget(st, txns, row.user, row.category)

\* update_budget_spent_on_transaction_save, _old_category being old
OnTransactionSave(st, txns, row, old) ==
    LET st1 == IF old # row.category
                   THEN recalc_budget(st, txns, row.user, old)
                   ELSE st
    IN  recalc_budget(st1, txns, row.user, row.category)

\* update_budget_spent_on_transaction_delete
OnTransactionDelete(st, txns, row) ==
    recalc_budget(st, txns, row.user, row.category)

BudgetState == [budgets |-> budgets, queue |-> taskQueue]

SetBudgets(st) ==
    /\ QueueSize(st.queue) <= MaxQueue
    /\ budgets' = st.budgets
    /\ taskQueue' = st.queue

\* POST /transactions/ by user with payload d
TransactionCreate(user, d) ==
    IF ~TransactionValid(d)
    THEN /\ response' = [op |-> "create", status |-> 400]
         /\ UNCHANGED <<now, requestVars, budgetVars, savingsVars, authVars, billVars>>
    ELSE /\ \E free \in TxnIds : free \notin {t.id : t \in transactions}
         /\ LET id   == CHOOSE x \in TxnIds : x \notin {t.id : t \in transactions}
                row  == TxnRow(id, user, d)
                txns == transactions \cup {row}
                \* pre_save: the primary key is set before the first save and
                \* no row has it yet, so _old_category is None
                old  == IF "track_old_category" \in Receivers("pre_save", TransactionModel)
                            THEN NoCategory ELSE row.category
                st   == IF "update_budget_spent_on_transaction_save"
                               \in Receivers("post_save", TransactionModel)
                            THEN OnTransactionSave(BudgetState, txns, row, old)
                            ELSE BudgetState
                saves  == "auto_save_on_income" \in Receivers("post_save", TransactionModel)
                \* auto_save_on_income reads instance.transaction_type
                raises == saves /\ "transaction_type" \notin DOMAIN row
           IN  /\ transactions' = txns
               /\ SetBudgets(st)
               /\ IF saves /\ ~raises /\ row.type = "income"
                      THEN SetSavings(auto_save_on_income(SavingsState, savingsSettings, row))
                      ELSE UNCHANGED <<savingsAccounts, savingsTransactions, goals, allocations>>
               /\ response' = [op |-> "create", status |-> IF raises THEN 500 ELSE 201]
               /\ UNCHANGED <<now, requestVars, budgetHistory, alerts, savingsSettings, authVars, billVars>>

\* PUT /transactions/<id>/ with payload d, by the owner of the row
TransactionUpdate(id, d) ==
    /\ \E t \in transactions : t.id = id
    /\ LET t == CHOOSE x \in transactions : x.id = id
       IN  IF ~TransactionValid(d)
           THEN /\ response' = [op |-> "update", status |-> 400]
                /\ UNCHANGED <<now, requestVars, budgetVars, savingsVars, authVars, billVars>>
           ELSE LET row  == TxnRow(id, t.user, d)
                    txns == (transactions \ {t}) \cup {row}
                    old  == IF "track_old_category" \in Receivers("pre_save", TransactionModel)
                                THEN t.category ELSE row.category
                    st   == IF "update_budget_spent_on_transaction_save"
                                   \in Receivers("post_save", TransactionModel)
                                THEN OnTransactionSave(BudgetState, txns, row, old)
                                ELSE BudgetState
                    \* auto_save_on_income returns at `not created`
                IN  /\ transactions' = txns
                    /\ SetBudgets(st)
                    /\ response' = [op |-> "update", status |-> 200]
                    /\ UNCHANGED <<now, requestVars, budgetHistory, alerts, savingsVars, authVars, billVars>>

\* DELETE /transactions/<id>/ by the owner of the row
TransactionDelete(id) ==
    /\ \E t \in transactions : t.id = id
    /\ LET t    == CHOOSE x \in transactions : x.id = id
           txns == transactions \ {t}
           st   == IF "update_budget_spent_on_transaction_delete"
                          \in Receivers("post_delete", TransactionModel)
                       THEN OnTransactionDelete(BudgetState, txns, t)
                       ELSE BudgetState
       IN  /\ transactions' = txns
           /\ SetBudgets(st)
           /\ response' = [op |-> "delete", status |-> 204]
           /\ UNCHANGED <<now, requestVars, budgetHistory, alerts, savingsVars, authVars, billVars>>

---------------------------------------------------------------------------
(* The create_budget_alert task *)

AlertWindow == 6 * Hour

\* a faulty variant: the threshold is tested before the limit
AlertTypeForThresholdFirst(b) ==
    IF is_alert_threshold_reached(b) THEN "threshold"
    ELSE IF is_over_budget(b) THEN "exceeded"
    ELSE "none"

\* the alert type create_budget_alert decides on
AlertTypeFor(b) ==
    IF is_over_budget(b) THEN "exceeded"
    ELSE IF is_alert_threshold_reached(b) THEN "threshold"
    ELSE "none"

\* recent_alert: a similar alert exists recently
RecentAlert(b, type) ==
    \E a \in alerts : /\ a.budget = b
                      /\ a.alert_type = type
                      /\ a.created_at >= now - AlertWindow

\* a worker runs create_budget_alert(b)
RunCreateBudgetAlert(b) ==
    /\ taskQueue[b] > 0
    /\ taskQueue' = [taskQueue EXCEPT ![b] = @ - 1]
    /\ LET type == AlertTypeFor(budgets[b])
       IN  IF type = "none"
           THEN /\ response' = [op |-> "create_budget_alert", result |-> "No alert needed"]
                /\ UNCHANGED alerts
           ELSE IF RecentAlert(b, type)
           THEN /\ response' = [op |-> "create_budget_alert", result |-> "Recent alert already exists"]
                /\ UNCHANGED alerts
           ELSE /\ alerts' = alerts \cup {[budget |-> b, alert_type |-> type, created_at |-> now]}
                /\ response' = [op |-> "create_budget_alert", result |-> "Alert created"]
    /\ UNCHANGED <<now, requestVars, transactions, budgets, budgetHistory, savingsVars, authVars, billVars>>


---------------------------------------------------------------------------
(* Initial state *)

\* the instant the budgets were created at
Epoch == Month

\* the budgets u1 created at Epoch
InitialBudgets ==
    [b1 |-> NewBudget("u1", CategoryStr("c1"), 3, 50, "monthly", Epoch),
     b2 |-> NewBudget("u1", CategoryStr("c2"), 9, 100, "monthly", Epoch),
     b3 |-> NewBudget("u1", Category["c1"].name, 2, 50, "monthly", Epoch)]

InitBudgets ==
    /\ now = Epoch
    /\ transactions = {}
    /\ budgets = InitialBudgets
    /\ budgetHistory = <<>>
    /\ alerts = {}
    /\ taskQueue = [b \in BudgetIds |-> 0]

\* u1 has an account, u2 has none yet
InitialAccounts ==
    [u \in Users |->
        IF u = "u1" THEN [NewAccount EXCEPT !.auto_save_percentage = 50]
        ELSE [exists |-> FALSE, balance |-> 0,
              auto_save_percentage |-> 0, is_auto_save_enabled |-> FALSE]]

\* the two goals u1 has created
InitialGoals ==
    [g \in GoalIds |->
        [user |-> "u1", target_amount |-> IF g = "g1" THEN 2 ELSE 3,
         current_amount |-> 0, status |-> "active", completed_at_set |-> FALSE,
         auto_allocate_enabled |-> FALSE, auto_allocate_percentage |-> 0,
         priority |-> "medium", created_at |-> IF g = "g1" THEN 0 ELSE 1]]

InitSavings ==
    /\ savingsAccounts = InitialAccounts
    /\ savingsTransactions = <<>>
    /\ goals = InitialGoals
    /\ allocations = <<>>
    /\ savingsSettings = [u \in Users |->
            [exists |-> FALSE, auto_save_enabled |-> FALSE, auto_save_percentage |-> 0]]

\* User.set_password stores a hash of the raw password
make_password(raw) == "pbkdf2$" \o raw

VerifyTokenIds == {"k1", "k2", "k3", "k4"}
ResetTokenIds  == {"r1", "r2"}

VerificationLifetime == 24 * Hour

\* UserProfile(user = u) with the defaults of its fields, saved at time t
NewProfile(u, t) ==
    [user |-> u, preferred_currency |-> "KES", email_notifications |-> TRUE,
     updated_at |-> t]

\* a faulty variant: a profile is created at every save of the user
create_user_profile_always(profs, u, created, t) == Append(profs, NewProfile(u, t))

\* receiver create_user_profile of post_save(User)
create_user_profile(profs, u, created, t) ==
    IF created THEN Append(profs, NewProfile(u, t)) ELSE profs

\* receiver save_user_profile of post_save(User): instance.profile.save()
\* when the user has a profile (auto_now sets updated_at)
save_user_profile(profs, u, t) ==
    [i \in DOMAIN profs |->
        IF profs[i].user = u THEN [profs[i] EXCEPT !.updated_at = t] ELSE profs[i]]

\* User.save(): the receivers of post_save run in the order they registered
UserPostSave(profs, u, created, t) ==
    save_user_profile(create_user_profile(profs, u, created, t), u, t)

\* both users registered at Epoch, which sent each a verification token;
\* u2 has verified with theirs
InitAuth ==
    /\ users = [u \in Users |->
            [is_verified |-> (u = "u2"), password |-> make_password("initial-pw")]]
    /\ verifyTokens =
         {[token |-> "k1", user |-> "u1", created_at |-> Epoch,
           expires_at |-> Epoch + VerificationLifetime, is_used |-> FALSE],
          [token |-> "k2", user |-> "u2", created_at |-> Epoch,
           expires_at |-> Epoch + VerificationLifetime, is_used |-> TRUE]}
    /\ resetTokens = {}
    /\ profiles = UserPostSave(UserPostSave(<<>>, "u1", TRUE, Epoch), "u2", TRUE, Epoch)

InitBills ==
    /\ bills = {}
    /\ billSeq = 0

\* the requests the server may be handling at the same time
ReqIds == {"r1", "r2"}

NoRow ==
    [id |-> "null", user |-> "null", category |-> NoCategory, type |-> "none",
     amount |-> 0, date |-> 0]

\* a transaction request nobody has sent yet: op is the operation, row the
\* Transaction instance the view holds, todo the categories recalc_budget is
\* still to be called for, budget and snap the Budget instance recalc_budget
\* holds, total the aggregate it computed
BudgetIdle ==
    [pc |-> "idle", op |-> "none", row |-> NoRow, todo |-> <<>>,
     budget |-> "null", snap |-> InitialBudgets["b1"], total |-> 0]

\* a savings request nobody has sent yet: op is the operation, user, goal
\* and amount what it asks for, account the SavingsAccount instance and
\* goal_row the SavingsGoal instance the view holds
SavingsIdle ==
    [pc |-> "idle", op |-> "none", user |-> "null", goal |-> "null", amount |-> 0,
     account |-> InitialAccounts["u1"], goal_row |-> InitialGoals["g1"]]

InitRequests ==
    /\ budgetRequests = [r \in ReqIds |-> BudgetIdle]
    /\ savingsRequests = [r \in ReqIds |-> SavingsIdle]

Init ==
    /\ InitBudgets
    /\ InitSavings
    /\ InitAuth
    /\ InitBills
    /\ InitRequests
    /\ response = [op |-> "none", status |-> 0]

---------------------------------------------------------------------------
(* Budgets recomputed from transactions, requests one at a time *)

TxnDates ==
    {DateOf(Epoch) - 1, DateOf(Epoch), DateOf(Epoch + Month - Second),
     DateOf(Epoch + Month - Second) + 1}

\* the payloads requests carry: BasePayload and those that differ from it
\* in one field
BasePayload ==
    [category |-> "c1", type |-> "expense", amount |-> 1, date |-> DateOf(Epoch)]

TxnPayloads ==
    {[BasePayload EXCEPT !.category = c] : c \in CategoryIds \cup {NoCategory}}
    \cup {[BasePayload EXCEPT !.type = "income"]}
    \cup {[BasePayload EXCEPT !.amount = a] : a \in 0..MaxAmount}
    \cup {[BasePayload EXCEPT !.date = d] : d \in TxnDates}

\* who sends which payload: u1 all of them, u2 the base payload
Requests == ({"u1"} \X TxnPayloads) \cup {<<"u2", BasePayload>>}

Next ==
    \/ \E r \in Requests : TransactionCreate(r[1], r[2])
    \/ \E id \in TxnIds, d \in TxnPayloads : TransactionUpdate(id, d)
    \/ \E id \in TxnIds : TransactionDelete(id)
    \/ \E b \in BudgetIds : RunCreateBudgetAlert(b)

Spec == Init /\ [][Next]_vars


---------------------------------------------------------------------------
(* Claims about budgets and transactions *)

\* a date read as the instant its day begins
Midnight(date) == date * Day

\* the expenses of a user in a category dated within the period of budget b
InPeriodExpenses(b, c) ==
    {t \in transactions : /\ t.user = budgets[b].user
                          /\ t.category = c
                          /\ t.type = "expense"
                          /\ budgets[b].period_start <= Midnight(t.date)
                          /\ Midnight(t.date) <= budgets[b].period_end}

\* the active budget of user u and category c: the one recalc_budget looks up
BudgetOf(b, u, c) ==
    /\ budgets[b].user = u
    /\ budgets[b].status = "active"
    /\ budgets[b].category = Category[c].icon \o " " \o Category[c].name

TotalWith(b, c, row) ==
    SumAmounts({t \in InPeriodExpenses(b, c) : t.id # row.id}) +
    (IF /\ row.type = "expense"
        /\ budgets[b].period_start <= Midnight(row.date)
        /\ Midnight(row.date) <= budgets[b].period_end
     THEN row.amount ELSE 0)

\* storing row takes the user's active budget b of the row's category over
\* its limit
TakesOver(b, row) ==
    /\ row.category # NoCategory
    /\ BudgetOf(b, row.user, row.category)
    /\ TotalWith(b, row.category, row) > budgets[b].limit

\* the request answered with status, row is stored, and every budget it takes
\* over its limit differs only in spent, which is the new total
StoredOverLimit(row, status) ==
    /\ response'.status = status
    /\ row \in transactions'
    /\ \A b \in BudgetIds :
        TakesOver(b, row) =>
            /\ budgets'[b] = [budgets[b] EXCEPT !.spent = TotalWith(b, row.category, row)]
            /\ budgets'[b].spent > budgets'[b].limit

\* C3: a create or update with a well-formed payload that takes a budget's
\* spent over its limit is not rejected and raises no error: the transaction
\* is stored, spent becomes the new total and nothing else of the budget
\* changes; the budget then counts as over budget.
C3_OverLimitIsAccepted ==
    [][/\ \A r \in Requests :
            (/\ response'.op = "create"
             /\ r[2].amount >= 1
             /\ \E b \in BudgetIds : TakesOver(b, TxnRow("new", r[1], r[2]))
             /\ TransactionCreate(r[1], r[2]))
            => \E id \in TxnIds \ {t.id : t \in transactions} :
                   StoredOverLimit(TxnRow(id, r[1], r[2]), 201)
       /\ \A t \in transactions : \A d \in TxnPayloads :
            (/\ response'.op = "update"
             /\ d.amount >= 1
             /\ \E b \in BudgetIds : TakesOver(b, TxnRow(t.id, t.user, d))
             /\ TransactionUpdate(t.id, d))
            => StoredOverLimit(TxnRow(t.id, t.user, d), 200)
      ]_vars

\* C3 witness: a create answered 201 and left budget b1 over its limit
C3_Witness ==
    /\ response.op = "create"
    /\ response.status = 201
    /\ budgets["b1"].spent > budgets["b1"].limit
    /\ budgets["b1"].spent = SumAmounts(InPeriodExpenses("b1", "c1"))

\* auto-save is enabled for user u with a percentage above 0
AutoSavePercentage(u) ==
    IF savingsSettings[u].exists
        THEN IF savingsSettings[u].auto_save_enabled
                 THEN savingsSettings[u].auto_save_percentage ELSE 0
        ELSE IF savingsAccounts[u].exists /\ savingsAccounts[u].is_auto_save_enabled
                 THEN savingsAccounts[u].auto_save_percentage ELSE 0

\* C5: creating an income transaction for a user whose auto-save is enabled
\* with percentage p > 0 raises the user's savings balance by amount * p / 100
\* and records one auto_save SavingsTransaction with that amount, the balance
\* before and after, and a reference to the income transaction.
C5_AutoSaveOnIncomeCreation ==
    [][\A r \in Requests : \A id \in TxnIds :
        LET u == r[1]
            d == r[2]
            p == AutoSavePercentage(u)
            saved == (d.amount * p) \div 100
        IN  (/\ d.type = "income" /\ d.amount >= 1 /\ p > 0
             /\ TransactionCreate(u, d)
             /\ TxnRow(id, u, d) \in transactions' \ transactions)
            => /\ savingsAccounts'[u].balance = savingsAccounts[u].balance + saved
               /\ Len(savingsTransactions') = Len(savingsTransactions) + 1
               /\ savingsTransactions'[Len(savingsTransactions')] =
                      [account |-> u, transaction_type |-> "auto_save",
                       amount |-> saved,
                       balance_before |-> savingsAccounts[u].balance,
                       balance_after |-> savingsAccounts[u].balance + saved,
                       reference_transaction_id |-> id]
      ]_vars


---------------------------------------------------------------------------
(* Alerts: the requests, the worker and the clock *)

\* time passes until the instant t
Tick(t) ==
    /\ t > now
    /\ now' = t
    /\ UNCHANGED <<requestVars, budgetVars, savingsVars, authVars, billVars, response>>

\* expenses of category c1 dated in the period
AlertPayloads == {[BasePayload EXCEPT !.amount = a] : a \in 1..MaxAmount}

\* the instants the clock shows: up to the end of the window that begins at
\* Epoch, and just after it
AlertInstants == {Epoch + AlertWindow + k : k \in 0..MaxSkew}

NextAlerts ==
    \/ \E d \in AlertPayloads : TransactionCreate("u1", d)
    \/ \E id \in TxnIds, d \in AlertPayloads : TransactionUpdate(id, d)
    \/ \E id \in TxnIds : TransactionDelete(id)
    \/ \E b \in BudgetIds : RunCreateBudgetAlert(b)
    \/ \E t \in AlertInstants : Tick(t)

\* a worker runs every queued task in the end
SpecAlerts ==
    /\ Init
    /\ [][NextAlerts]_vars
    /\ \A b \in BudgetIds : WF_vars(RunCreateBudgetAlert(b))

\* what the spent and limit of budget b call for
Warranted(b) ==
    IF budgets[b].spent > budgets[b].limit THEN "exceeded"
    ELSE IF budgets[b].limit > 0
            /\ budgets[b].spent * 100 >= budgets[b].alert_threshold * budgets[b].limit
        THEN "threshold"
    ELSE "none"

HasAlert(b, type) == \E a \in alerts : a.budget = b /\ a.alert_type = type

AlertTypes == {"exceeded", "threshold"}

---------------------------------------------------------------------------
(* Savings: the goal and account endpoints *)

\* SavingsGoalActionSerializer, SavingsAccountActionSerializer: min_value 0.01
AmountValid(amount) == amount >= 1

SavingsDone(sv, op, status) ==
    /\ Len(sv.allocs) <= MaxLedger
    /\ Len(sv.stx) <= MaxLedger
    /\ SetSavings(sv)
    /\ response' = [op |-> op, status |-> status]
    /\ UNCHANGED <<now, requestVars, budgetVars, savingsSettings, authVars, billVars>>

\* POST /savings-goals/{g}/add_funds/ by user u
GoalAddFundsView(u, g, amount) ==
    LET sv == SavingsState
    IN  IF goals[g].user # u THEN SavingsDone(sv, "add_funds", 404)
        ELSE IF ~AmountValid(amount) THEN SavingsDone(sv, "add_funds", 400)
        ELSE IF amount > 0
            THEN SavingsDone(GoalAddFunds(sv, g, amount, "manual"), "add_funds", 200)
        ELSE SavingsDone(sv, "add_funds", 400)

\* POST /savings-goals/{g}/withdraw_funds/ by user u
GoalWithdrawFundsView(u, g, amount) ==
    LET sv == SavingsState
    IN  IF goals[g].user # u THEN SavingsDone(sv, "withdraw_funds", 404)
        ELSE IF ~AmountValid(amount) THEN SavingsDone(sv, "withdraw_funds", 400)
        ELSE IF ~GoalCanWithdraw(sv, g, amount) THEN SavingsDone(sv, "withdraw_funds", 400)
        ELSE IF GoalWithdrawOk(sv, g, amount)
            THEN SavingsDone(
                    AccountAddFunds(GetOrCreateAccount(GoalWithdrawFunds(sv, g, amount), u),
                                    u, amount),
                    "withdraw_funds", 200)
        ELSE SavingsDone(sv, "withdraw_funds", 400)

\* POST /savings-accounts/allocate_to_goal/ by user u; g is a goal id or
\* NoGoal when the payload has none
NoGoal == "null"

AllocateToGoal(u, g, amount) ==
    LET sv  == SavingsState
        sv1 == GetOrCreateAccount(sv, u)
        active == g # NoGoal /\ goals[g].user = u /\ goals[g].status = "active"
    IN  IF ~AmountValid(amount) \/ (g # NoGoal /\ ~active)
            THEN SavingsDone(sv, "allocate_to_goal", 400)
        ELSE IF ~AccountCanWithdraw(sv1, u, amount)
            THEN SavingsDone(sv1, "allocate_to_goal", 400)
        ELSE IF ~active
            THEN SavingsDone(sv1, "allocate_to_goal", 404)
        ELSE IF AccountWithdrawOk(sv1, u, amount)
            THEN SavingsDone(
                    GoalAddFunds(AccountWithdrawFunds(sv1, u, amount), g, amount, "transfer"),
                    "allocate_to_goal", 200)
        ELSE SavingsDone(sv1, "allocate_to_goal", 400)

NextSavings ==
    \/ \E u \in Users, g \in GoalIds, a \in 0..MaxAmount : GoalAddFundsView(u, g, a)
    \/ \E u \in Users, g \in GoalIds, a \in 0..MaxAmount : GoalWithdrawFundsView(u, g, a)
    \/ \E u \in Users, g \in GoalIds \cup {NoGoal}, a \in 0..MaxAmount : AllocateToGoal(u, g, a)

SpecSavings == Init /\ [][NextSavings]_vars

\* C4: after any sequence of add_funds, withdraw_funds and allocate_to_goal,
\* no goal's current_amount exceeds its target_amount.
C4_CurrentAmountWithinTarget ==
    \A g \in GoalIds : goals[g].current_amount <= goals[g].target_amount


---------------------------------------------------------------------------
(* Archiving ended budget periods *)

\* Budget.advance_period at time t
advance_period(b, t) == set_period_dates([b EXCEPT !.spent = 0], t)

\* the BudgetHistory row archive_budget_history creates for budget id
\* (the fields the claims speak of)
HistoryRow(id, b) ==
    [budget |-> id, period_start |-> b.period_start, period_end |-> b.period_end,
     limit |-> b.limit, spent |-> b.spent]

\* budgets_to_archive at time t
BudgetsToArchive(bs, t) ==
    {id \in BudgetIds : bs[id].period_end < t /\ bs[id].status = "active"}

\* the loop of archive_budget_history over the budget ids in q;
\* st = [budgets, history]
RECURSIVE ArchiveLoop(_, _, _)
ArchiveLoop(st, q, t) ==
    IF q = <<>> THEN st
    ELSE LET id == Head(q)
         IN  ArchiveLoop(
                [budgets |-> [st.budgets EXCEPT ![id] = advance_period(@, t)],
                 history |-> Append(st.history, HistoryRow(id, st.budgets[id]))],
                Tail(q), t)

\* a queryset of budgets in Meta.ordering: the latest created first
BudgetOrder(S) ==
    SelectSeq(<<"b3", "b2", "b1">>, LAMBDA id : id \in S)

\* the periodic task archive_budget_history()
ArchiveBudgetHistory ==
    LET due == BudgetsToArchive(budgets, now)
        st  == ArchiveLoop([budgets |-> budgets, history |-> budgetHistory],
                           BudgetOrder(due), now)
    IN  /\ Len(st.history) <= MaxHistory
        /\ budgets' = st.budgets
        /\ budgetHistory' = st.history
        /\ response' = [op |-> "archive_budget_history",
                        archived_count |-> Cardinality(due)]
        /\ UNCHANGED <<now, requestVars, transactions, alerts, taskQueue, savingsVars, authVars,
                       billVars>>

\* the instants the clock shows: the last second of the period that begins
\* at Epoch, the instants after it, and the start of the next period
ArchiveInstants ==
    {Epoch + Month - Second + k : k \in 0..MaxSkew} \cup {Epoch + Month}

NextArchive ==
    \/ \E d \in AlertPayloads : TransactionCreate("u1", d)
    \/ \E id \in TxnIds : TransactionDelete(id)
    \/ \E t \in ArchiveInstants : Tick(t)
    \/ ArchiveBudgetHistory

SpecArchive == Init /\ [][NextArchive]_vars

\* budget b is active and its period has ended
Due(b) == budgets[b].status = "active" /\ budgets[b].period_end < now

\* C6: a run of archive_budget_history adds, for every active budget whose
\* period_end is in the past, exactly one BudgetHistory record holding the
\* ended period's period_start, period_end, limit and spent, and none for any
\* other budget; afterwards such a budget has spent = 0 and a period that
\* contains the current time, so a second run with no time passing adds
\* nothing.
C6_ArchiveOncePerEndedPeriod ==
    [][ArchiveBudgetHistory =>
        LET added == SubSeq(budgetHistory', Len(budgetHistory) + 1, Len(budgetHistory'))
            rows(b) == SelectSeq(added, LAMBDA r : r.budget = b)
        IN  /\ SubSeq(budgetHistory', 1, Len(budgetHistory)) = budgetHistory
            /\ \A b \in BudgetIds :
                 IF Due(b)
                 THEN /\ rows(b) = <<[budget |-> b,
                                      period_start |-> budgets[b].period_start,
                                      period_end |-> budgets[b].period_end,
                                      limit |-> budgets[b].limit,
                                      spent |-> budgets[b].spent]>>
                      /\ budgets'[b].spent = 0
                      /\ budgets'[b].period_start <= now
                      /\ now <= budgets'[b].period_end
                 ELSE rows(b) = <<>> /\ budgets'[b] = budgets[b]
      ]_vars


---------------------------------------------------------------------------
(* Authentication: verification and password reset tokens *)

\* a faulty variant: a token is expired already at the instant expires_at
is_expired_from(r, t) == t >= r.expires_at

\* EmailVerificationToken.is_expired at time t
is_expired(r, t) == t > r.expires_at

\* PasswordResetToken.is_expired at time t
reset_is_expired(r, t) == t > r.expires_at

\* secrets.token_urlsafe(32): a token no row holds yet
FreshToken(pool, rows) == CHOOSE k \in pool : k \notin {r.token : r \in rows}

HasFreshToken(pool, rows) == \E k \in pool : k \notin {r.token : r \in rows}

AuthDone(op, status) ==
    /\ response' = [op |-> op, status |-> status]
    /\ UNCHANGED <<now, requestVars, budgetVars, savingsVars, billVars>>

\* POST /auth/verify-email/ with payload token tok
EmailVerification(tok) ==
    LET found == {r \in verifyTokens : r.token = tok /\ ~r.is_used}
    IN  IF found = {} \/ \E r \in found : is_expired(r, now)
        THEN /\ AuthDone("verify_email", 400)
             /\ UNCHANGED authVars
        ELSE LET r == CHOOSE r \in found : TRUE
             IN  /\ users' = [users EXCEPT ![r.user].is_verified = TRUE]
                 /\ verifyTokens' = (verifyTokens \ {r}) \cup {[r EXCEPT !.is_used = TRUE]}
                 /\ profiles' = UserPostSave(profiles, r.user, FALSE, now)
                 /\ UNCHANGED resetTokens
                 /\ AuthDone("verify_email", 200)

ResendWindow == 5 * Minute

\* a faulty variant: a token exactly 5 minutes old no longer counts as recent
RecentTokenExclusive(u) ==
    {r \in verifyTokens : /\ r.user = u
                          /\ r.created_at > now - ResendWindow
                          /\ ~r.is_used}

\* recent_token of ResendVerificationEmailView.post
RecentToken(u) ==
    {r \in verifyTokens : /\ r.user = u
                          /\ r.created_at >= now - ResendWindow
                          /\ ~r.is_used}

\* POST /auth/resend-verification/ by the authenticated user u
ResendVerification(u) ==
    IF users[u].is_verified
    THEN AuthDone("resend_verification", 400) /\ UNCHANGED authVars
    ELSE IF RecentToken(u) # {}
    THEN AuthDone("resend_verification", 429) /\ UNCHANGED authVars
    ELSE /\ HasFreshToken(VerifyTokenIds, verifyTokens)
         /\ verifyTokens' = verifyTokens \cup
                {[token |-> FreshToken(VerifyTokenIds, verifyTokens), user |-> u,
                  created_at |-> now, expires_at |-> now + 24 * Hour,
                  is_used |-> FALSE]}
         /\ UNCHANGED <<users, resetTokens, profiles>>
         /\ AuthDone("resend_verification", 200)

\* POST /auth/password-reset/ with the email of account u
\* (PasswordResetRequestSerializer refuses an email no user has)
PasswordResetRequest(u) ==
    IF u \notin Users
    THEN AuthDone("password_reset", 400) /\ UNCHANGED authVars
    ELSE /\ HasFreshToken(ResetTokenIds, resetTokens)
         /\ resetTokens' = resetTokens \cup
                {[token |-> FreshToken(ResetTokenIds, resetTokens), user |-> u,
                  created_at |-> now, expires_at |-> now + 1 * Hour,
                  is_used |-> FALSE]}
         /\ UNCHANGED <<users, verifyTokens, profiles>>
         /\ AuthDone("password_reset", 200)

\* a faulty variant: any new password passes
PasswordAcceptableAlways(raw) == TRUE

\* the field new_password of PasswordResetConfirmSerializer: min_length = 8
PasswordAcceptable(raw) == Len(raw) >= 8

\* POST /auth/password-reset/confirm/
PasswordResetConfirm(tok, new_password, new_password_confirm) ==
    LET found == {r \in resetTokens : r.token = tok /\ ~r.is_used}
    IN  IF \/ ~PasswordAcceptable(new_password)
           \/ new_password # new_password_confirm
           \/ found = {}
           \/ \E r \in found : reset_is_expired(r, now)
        THEN /\ AuthDone("password_reset_confirm", 400)
             /\ UNCHANGED authVars
        ELSE LET r == CHOOSE r \in found : TRUE
             IN  /\ users' = [users EXCEPT ![r.user].password = make_password(new_password)]
                 /\ resetTokens' = (resetTokens \ {r}) \cup {[r EXCEPT !.is_used = TRUE]}
                 /\ profiles' = UserPostSave(profiles, r.user, FALSE, now)
                 /\ UNCHANGED verifyTokens
                 /\ AuthDone("password_reset_confirm", 200)

\* the instants the clock shows: the end of the resend window and of the
\* lifetime of the tokens created at Epoch, and the instants after them
VerifyInstants ==
    {Epoch + ResendWindow + k : k \in 0..MaxSkew}
    \cup {Epoch + VerificationLifetime + k : k \in 0..MaxSkew}

NextVerify ==
    \/ \E tok \in VerifyTokenIds \cup {"bogus"} : EmailVerification(tok)
    \/ \E u \in Users : ResendVerification(u)
    \/ \E t \in VerifyInstants : Tick(t)

SpecVerify == Init /\ [][NextVerify]_vars

\* C7: submitting a verification token that exists, is unused and is not
\* expired sets its user's is_verified and the token's is_used and nothing
\* else; submitting any other token is rejected and changes neither a user
\* nor a token, so a token verifies at most once.
C7_VerificationTokenSingleUse ==
    [][\A tok \in VerifyTokenIds \cup {"bogus"} :
        EmailVerification(tok) =>
            LET good == {r \in verifyTokens :
                            r.token = tok /\ ~r.is_used /\ now <= r.expires_at}
            IN  IF good # {}
                THEN \E r \in good :
                        /\ response'.status = 200
                        /\ users' = [users EXCEPT ![r.user].is_verified = TRUE]
                        /\ verifyTokens' = (verifyTokens \ {r})
                                              \cup {[r EXCEPT !.is_used = TRUE]}
                ELSE /\ response'.status = 400
                     /\ users' = users
                     /\ verifyTokens' = verifyTokens
      ]_vars

\* C7 witness: u1 has verified with k1, and submitting a token has since
\* been rejected
C7_Witness ==
    /\ response.op = "verify_email"
    /\ response.status = 400
    /\ users["u1"].is_verified
    /\ \E r \in verifyTokens : r.token = "k1" /\ r.is_used

\* C9: a resend by a verified user is refused with 400, one by a user with an
\* unused verification token created within the last 5 minutes with 429,
\* neither creating a token; any other resend succeeds and creates exactly one
\* new token, for that user, unused, expiring 24 hours later.
C9_ResendVerification ==
    [][\A u \in Users :
        ResendVerification(u) =>
            /\ users' = users
            /\ IF users[u].is_verified
               THEN response'.status = 400 /\ verifyTokens' = verifyTokens
               ELSE IF \E r \in verifyTokens : /\ r.user = u
                                               /\ ~r.is_used
                                               /\ now - r.created_at <= 5 * Minute
               THEN response'.status = 429 /\ verifyTokens' = verifyTokens
               ELSE /\ response'.status = 200
                    /\ \E r \in verifyTokens' \ verifyTokens :
                          /\ verifyTokens' = verifyTokens \cup {r}
                          /\ r.token \notin {q.token : q \in verifyTokens}
                          /\ r.user = u
                          /\ ~r.is_used
                          /\ r.expires_at = now + 24 * Hour
      ]_vars

\* C9 witness: a resend for u1 has succeeded and u1 holds two tokens
C9_Witness ==
    /\ response.op = "resend_verification"
    /\ response.status = 200
    /\ Cardinality({r \in verifyTokens : r.user = "u1"}) = 2

ResetLifetime == 1 * Hour

ResetInstants == {Epoch + ResetLifetime + k : k \in 0..MaxSkew}

Passwords == {"short", "longenough1", "longenough2"}

NextReset ==
    \/ \E u \in Users \cup {"nobody"} : PasswordResetRequest(u)
    \/ \E tok \in ResetTokenIds \cup {"bogus"}, p1 \in Passwords, p2 \in Passwords :
          PasswordResetConfirm(tok, p1, p2)
    \/ \E t \in ResetInstants : Tick(t)

SpecReset == Init /\ [][NextReset]_vars

\* the reset token tok exists, is unused and is not expired
GoodResetTokens(tok) ==
    {r \in resetTokens : r.token = tok /\ ~r.is_used /\ now <= r.expires_at}

\* C8 as stated: confirming with a token that exists, is unused and is not
\* expired, and matching new passwords, changes the user's password and marks
\* the token used; confirming with any other token is rejected and leaves
\* passwords and tokens unchanged.
C8_ResetTokenSingleUse ==
    [][\A tok \in ResetTokenIds \cup {"bogus"}, p1 \in Passwords, p2 \in Passwords :
        PasswordResetConfirm(tok, p1, p2) =>
            /\ (GoodResetTokens(tok) # {} /\ p1 = p2) =>
                  \E r \in GoodResetTokens(tok) :
                     /\ response'.status = 200
                     /\ users' = [users EXCEPT ![r.user].password = "pbkdf2$" \o p1]
                     /\ resetTokens' = (resetTokens \ {r})
                                          \cup {[r EXCEPT !.is_used = TRUE]}
            /\ GoodResetTokens(tok) = {} =>
                  /\ response'.status = 400
                  /\ users' = users
                  /\ resetTokens' = resetTokens
      ]_vars

\* C8 amended: confirming with a token that exists, is unused and is not
\* expired, with matching new passwords of at least 8 characters, changes
\* the user's password and marks the token used; every other confirmation
\* (unknown, used or expired token, passwords that differ, or a new password
\* shorter than 8 characters) is rejected and leaves passwords and tokens
\* unchanged.
C8_ResetNeedsValidPassword ==
    [][\A tok \in ResetTokenIds \cup {"bogus"}, p1 \in Passwords, p2 \in Passwords :
        PasswordResetConfirm(tok, p1, p2) =>
            IF GoodResetTokens(tok) # {} /\ p1 = p2 /\ Len(p1) >= 8
            THEN \E r \in GoodResetTokens(tok) :
                     /\ response'.status = 200
                     /\ users' = [users EXCEPT ![r.user].password = "pbkdf2$" \o p1]
                     /\ resetTokens' = (resetTokens \ {r})
                                          \cup {[r EXCEPT !.is_used = TRUE]}
            ELSE /\ response'.status = 400
                 /\ users' = users
                 /\ resetTokens' = resetTokens
      ]_vars

\* C8 witness: a confirmation has changed u1's password and used up r1
C8_Witness ==
    /\ response.op = "password_reset_confirm"
    /\ response.status = 200
    /\ users["u1"].password = "pbkdf2$longenough1"
    /\ \E r \in resetTokens : r.token = "r1" /\ r.user = "u1" /\ r.is_used


---------------------------------------------------------------------------
(* Recurring bills *)

\* a faulty variant: the bills of every user
get_queryset_all(u) == bills

\* RecurringBillViewSet.get_queryset for the requesting user u
get_queryset(u) == {b \in bills : b.user = u}

BillDone(resp) ==
    /\ response' = resp
    /\ UNCHANGED <<now, requestVars, budgetVars, savingsVars, authVars, billSeq>>

\* POST /recurring-bills/ by user u; the id is the next of the sequence
BillCreate(u, d) ==
    /\ billSeq < MaxBills
    /\ billSeq' = billSeq + 1
    /\ bills' = bills \cup {[id |-> billSeq + 1, user |-> u, name |-> d.name,
                             amount |-> d.amount, frequency |-> d.frequency,
                             paid |-> d.paid]}
    /\ response' = [op |-> "create_bill", status |-> 201]
    /\ UNCHANGED <<now, requestVars, budgetVars, savingsVars, authVars>>

\* DELETE /recurring-bills/{id}/ by user u
BillDelete(u, id) ==
    LET found == {b \in get_queryset(u) : b.id = id}
    IN  IF found = {}
        THEN /\ UNCHANGED bills
             /\ BillDone([op |-> "delete_bill", status |-> 404])
        ELSE /\ bills' = bills \ found
             /\ BillDone([op |-> "delete_bill", status |-> 204])

\* POST /recurring-bills/{id}/toggle_paid/ by user u
toggle_paid(u, id) ==
    LET found == {b \in get_queryset(u) : b.id = id}
    IN  IF found = {}
        THEN /\ UNCHANGED bills
             /\ BillDone([op |-> "toggle_paid", status |-> 404])
        ELSE LET bill == CHOOSE b \in found : TRUE
             IN  /\ bills' = (bills \ {bill}) \cup {[bill EXCEPT !.paid = ~bill.paid]}
                 /\ BillDone([op |-> "toggle_paid", status |-> 200])

\* queryset.filter(paid=from).update(paid=to) on the table
BulkUpdate(queryset, from, to) ==
    (bills \ {b \in queryset : b.paid = from})
        \cup {[b EXCEPT !.paid = to] : b \in {b \in queryset : b.paid = from}}

\* POST /recurring-bills/bulk_operations/ by user u
bulk_operations(u, action_type) ==
    LET queryset == get_queryset(u)
    IN  IF action_type = "mark_all_paid"
        THEN /\ bills' = BulkUpdate(queryset, FALSE, TRUE)
             /\ BillDone([op |-> "bulk_operations", status |-> 200,
                          updated_count |-> Cardinality({b \in queryset : ~b.paid})])
        ELSE IF action_type = "reset_all"
        THEN /\ bills' = BulkUpdate(queryset, TRUE, FALSE)
             /\ BillDone([op |-> "bulk_operations", status |-> 200,
                          updated_count |-> Cardinality({b \in queryset : b.paid})])
        ELSE /\ UNCHANGED bills
             /\ BillDone([op |-> "bulk_operations", status |-> 400])

\* a faulty variant: total_count counts the bills of every user
BillStatsAllUsers(queryset) ==
    [total_monthly_bills |-> SumAmounts({b \in queryset : b.frequency = "monthly"}),
     paid_count |-> Cardinality({b \in queryset : b.paid}),
     unpaid_count |-> Cardinality({b \in queryset : ~b.paid}),
     total_count |-> Cardinality(bills)]

\* stats_data of RecurringBillViewSet.stats
BillStats(queryset) ==
    [total_monthly_bills |-> SumAmounts({b \in queryset : b.frequency = "monthly"}),
     paid_count |-> Cardinality({b \in queryset : b.paid = TRUE}),
     unpaid_count |-> Cardinality({b \in queryset : b.paid = FALSE}),
     total_count |-> Cardinality(queryset)]

\* GET /recurring-bills/stats/ by user u
stats(u) ==
    /\ UNCHANGED bills
    /\ BillDone([op |-> "stats", status |-> 200, stats_data |-> BillStats(get_queryset(u))])

\* the 'stats' entry RecurringBillViewSet.list adds to its response
ListStats(queryset) ==
    [total_monthly_bills |-> SumAmounts({b \in queryset : b.frequency = "monthly"}),
     paid_count |-> Cardinality({b \in queryset : b.paid = TRUE}),
     unpaid_count |-> Cardinality({b \in queryset : b.paid = FALSE}),
     total_count |-> Cardinality(queryset)]

\* GET /recurring-bills/ by user u
list(u) ==
    /\ UNCHANGED bills
    /\ BillDone([op |-> "list", status |-> 200, results |-> get_queryset(u),
                 stats_data |-> ListStats(get_queryset(u))])

\* Decimal('4.33'), in hundredths
WeeksPerMonthHundredths == 433
\* Decimal('12')
MonthsPerYear == 12

\* amounts of monthly impact are kept in parts of 1 / ImpactScale, in which
\* amount * 4.33 and amount / 12 are whole
ImpactScale == 100 * MonthsPerYear

\* a faulty variant: a paid bill adds nothing
BillImpactUnpaidOnly(bill) ==
    IF bill.paid THEN 0
    ELSE IF bill.frequency = "monthly" THEN bill.amount * ImpactScale
    ELSE IF bill.frequency = "weekly"
        THEN bill.amount * WeeksPerMonthHundredths * MonthsPerYear
    ELSE IF bill.frequency = "yearly" THEN bill.amount * 100
    ELSE 0

\* what one bill adds to monthly_impact in calculate_monthly_budget_impact
BillImpact(bill) ==
    IF bill.frequency = "monthly" THEN bill.amount * ImpactScale
    ELSE IF bill.frequency = "weekly"
        THEN (bill.amount * WeeksPerMonthHundredths * ImpactScale) \div 100
    ELSE IF bill.frequency = "yearly" THEN (bill.amount * ImpactScale) \div MonthsPerYear
    ELSE 0

\* the loop of calculate_monthly_budget_impact over the bills S
RECURSIVE ImpactLoop(_)
ImpactLoop(S) ==
    IF S = {} THEN 0
    ELSE LET bill == CHOOSE b \in S : TRUE
         IN  BillImpact(bill) + ImpactLoop(S \ {bill})

\* RecurringBillService.calculate_monthly_budget_impact(user) on the table
calculate_monthly_budget_impact(table, user) ==
    ImpactLoop({b \in table : b.user = user})

\* the payloads bills are created with
BaseBill == [name |-> "rent", amount |-> 1, frequency |-> "monthly", paid |-> FALSE]

BillPayloads ==
    {BaseBill, [BaseBill EXCEPT !.paid = TRUE]}
    \cup {[BaseBill EXCEPT !.frequency = f] : f \in {"weekly", "yearly"}}

BillRequests == ({"u1"} \X BillPayloads) \cup {<<"u2", BaseBill>>}

NextBills ==
    \/ \E r \in BillRequests : BillCreate(r[1], r[2])
    \/ \E u \in Users, id \in 1..MaxBills : toggle_paid(u, id)
    \/ \E u \in Users, a \in {"mark_all_paid", "reset_all", "bogus"} : bulk_operations(u, a)

SpecBills == Init /\ [][NextBills]_vars

\* the bills after every bill of user u has been given paid = p
AllSetTo(u, p) ==
    {b \in bills : b.user # u} \cup {[b EXCEPT !.paid = p] : b \in {b \in bills : b.user = u}}

\* C10: 'mark_all_paid' by user u leaves every bill of u paid and reports as
\* updated_count the number of u's bills that were unpaid; 'reset_all' leaves
\* every bill of u unpaid and reports the number that were paid; the bills of
\* other users, and every other field of u's bills, are unchanged.
C10_BulkOperationsPerUser ==
    [][\A u \in Users :
        /\ bulk_operations(u, "mark_all_paid") =>
              /\ bills' = AllSetTo(u, TRUE)
              /\ \A b \in bills' : b.user = u => b.paid
              /\ response'.updated_count =
                     Cardinality({b \in bills : b.user = u /\ ~b.paid})
        /\ bulk_operations(u, "reset_all") =>
              /\ bills' = AllSetTo(u, FALSE)
              /\ \A b \in bills' : b.user = u => ~b.paid
              /\ response'.updated_count =
                     Cardinality({b \in bills : b.user = u /\ b.paid})
      ]_vars

\* C10 witness: a bulk operation has updated two bills of u1 and all of u1's
\* bills are paid, while u2 has a bill that is not
C10_Witness ==
    /\ response.op = "bulk_operations"
    /\ response.status = 200
    /\ response.updated_count = 2
    /\ \A b \in bills : b.user = "u1" => b.paid
    /\ \E b \in bills : b.user = "u2" /\ ~b.paid


---------------------------------------------------------------------------
(* Recurring bills: statistics *)

\* the bills u1 creates: one of each frequency, of different amounts
StatsPayloads ==
    {BaseBill,
     [BaseBill EXCEPT !.frequency = "weekly", !.amount = MaxAmount],
     [BaseBill EXCEPT !.frequency = "yearly", !.amount = MaxAmount + 1]}

\* u1 creates, deletes and marks bills, u2 creates them; both ask for the
\* statistics
NextBillStats ==
    \/ \E d \in StatsPayloads : BillCreate("u1", d)
    \/ BillCreate("u2", BaseBill)
    \/ \E id \in 1..MaxBills : BillDelete("u1", id)
    \/ \E id \in 1..MaxBills : toggle_paid("u1", id)
    \/ \E a \in {"mark_all_paid", "reset_all"} : bulk_operations("u1", a)
    \/ \E u \in Users : stats(u)
    \/ \E u \in Users : list(u)

SpecBillStats == Init /\ [][NextBillStats]_vars

\* the bills of user u with frequency f
BillsOf(u, f) == {b \in bills : b.user = u /\ b.frequency = f}

\* C11: calculate_monthly_budget_impact(user) is the sum over the user's
\* bills of amount for a monthly bill, amount * 4.33 for a weekly bill and
\* amount / 12 for a yearly bill (compared in 1200ths, where all three are
\* whole), and is the same whatever the bills' paid flags are.
C11_MonthlyBudgetImpact ==
    \A u \in Users :
        /\ calculate_monthly_budget_impact(bills, u) * 100 =
               SumAmounts(BillsOf(u, "monthly")) * 1200 * 100
               + SumAmounts(BillsOf(u, "weekly")) * 433 * 1200
               + SumAmounts(BillsOf(u, "yearly")) * 100 * 100
        /\ \A p \in BOOLEAN :
               calculate_monthly_budget_impact(
                   {[b EXCEPT !.paid = p] : b \in bills}, u) =
               calculate_monthly_budget_impact(bills, u)

\* C11 witness: u1 has a monthly, a weekly and a yearly bill, one of them
\* paid and one not
C11_Witness ==
    /\ \A f \in {"monthly", "weekly", "yearly"} : BillsOf("u1", f) # {}
    /\ \E b \in bills : b.user = "u1" /\ b.paid
    /\ \E b \in bills : b.user = "u1" /\ ~b.paid
    /\ calculate_monthly_budget_impact(bills, "u1") =
           1200 + MaxAmount * 5196 + (MaxAmount + 1) * 100

\* the counts in st are those of user u's bills
CountsOf(st, u) ==
    /\ st.total_count = Cardinality({b \in bills : b.user = u})
    /\ st.paid_count = Cardinality({b \in bills : b.user = u /\ b.paid})
    /\ st.paid_count + st.unpaid_count = st.total_count

\* C13: in the stats returned by the stats endpoint and with the bill list,
\* total_count is the number of the requesting user's bills and
\* paid_count + unpaid_count = total_count, whatever creations, deletions,
\* toggles and bulk operations came before.
C13_StatsCounts ==
    [][\A u \in Users :
        /\ stats(u) => CountsOf(response'.stats_data, u)
        /\ list(u) => CountsOf(response'.stats_data, u)
      ]_vars

\* C13 witness: after a deletion the list shows u1 one bill, which is paid,
\* while u2 has a bill too
C13_Witness ==
    /\ response.op = "list"
    /\ response.stats_data.total_count = 1
    /\ response.stats_data.paid_count = 1
    /\ Cardinality(bills) = 2
    /\ billSeq > Cardinality(bills)

---------------------------------------------------------------------------
(* Authentication: the profile of a user *)

\* accounts nobody has registered yet
NewUserIds == {"u3"}

CurrencyChoices == {"KES", "USD", "EUR", "GBP"}

\* POST /auth/register/ for the e-mail address of account u with password raw:
\* UserRegistrationSerializer refuses an address a user already has and a
\* password that fails validation; create_user saves the user, which runs
\* the receivers of post_save; _send_verification_email stores a token
Register(u, raw) ==
    IF u \in DOMAIN users \/ ~PasswordAcceptable(raw)
    THEN AuthDone("register", 400) /\ UNCHANGED authVars
    ELSE /\ HasFreshToken(VerifyTokenIds, verifyTokens)
         /\ users' = users @@ (u :> [is_verified |-> FALSE, password |-> make_password(raw)])
         /\ profiles' = UserPostSave(profiles, u, TRUE, now)
         /\ verifyTokens' = verifyTokens \cup
                {[token |-> FreshToken(VerifyTokenIds, verifyTokens), user |-> u,
                  created_at |-> now, expires_at |-> now + 24 * Hour,
                  is_used |-> FALSE]}
         /\ UNCHANGED resetTokens
         /\ AuthDone("register", 201)

\* PATCH /auth/user/ by the authenticated user u: serializer.save() saves
\* the user (first_name, last_name)
UserDetailUpdate(u) ==
    /\ u \in DOMAIN users
    /\ profiles' = UserPostSave(profiles, u, FALSE, now)
    /\ UNCHANGED <<users, verifyTokens, resetTokens>>
    /\ AuthDone("user_detail_update", 200)

\* UserProfile.objects.get_or_create(user = u)
ProfileGetOrCreate(profs, u, t) ==
    IF \E i \in DOMAIN profs : profs[i].user = u
    THEN profs
    ELSE Append(profs, NewProfile(u, t))

\* the row get_or_create returns
ProfileIndex(profs, u) == CHOOSE i \in DOMAIN profs : profs[i].user = u

\* GET /auth/profile/ by the authenticated user u
ProfileRetrieve(u) ==
    /\ u \in DOMAIN users
    /\ profiles' = ProfileGetOrCreate(profiles, u, now)
    /\ response' = [op |-> "profile_retrieve", status |-> 200,
                    profile |-> profiles'[ProfileIndex(profiles', u)]]
    /\ UNCHANGED <<now, requestVars, budgetVars, savingsVars, billVars, users, verifyTokens, resetTokens>>

\* PATCH /auth/profile/ by the authenticated user u with payload d:
\* get_object runs before the serializer checks the choices of the fields
ProfileUpdate(u, d) ==
    /\ u \in DOMAIN users
    /\ LET got == ProfileGetOrCreate(profiles, u, now)
           i   == ProfileIndex(got, u)
       IN  IF d.preferred_currency \notin CurrencyChoices
           THEN /\ profiles' = got
                /\ AuthDone("profile_update", 400)
           ELSE /\ profiles' = [got EXCEPT ![i] =
                        [@ EXCEPT !.preferred_currency = d.preferred_currency,
                                  !.email_notifications = d.email_notifications,
                                  !.updated_at = now]]
                /\ AuthDone("profile_update", 200)
    /\ UNCHANGED <<users, verifyTokens, resetTokens>>

ProfilePayloads ==
    {[preferred_currency |-> "USD", email_notifications |-> TRUE],
     [preferred_currency |-> "KES", email_notifications |-> FALSE],
     [preferred_currency |-> "XXX", email_notifications |-> TRUE]}

ProfileInstants == {Epoch + k : k \in 1..MaxSkew}

NextProfiles ==
    \/ \E u \in NewUserIds, raw \in {"short", "longenough1"} : Register(u, raw)
    \/ \E tok \in VerifyTokenIds : EmailVerification(tok)
    \/ \E u \in Users \cup NewUserIds : UserDetailUpdate(u)
    \/ \E u \in Users \cup NewUserIds : ProfileRetrieve(u)
    \/ \E u \in {"u1", "u3"}, d \in ProfilePayloads : ProfileUpdate(u, d)
    \/ \E t \in ProfileInstants : Tick(t)

SpecProfiles == Init /\ [][NextProfiles]_vars

ProfilesOf(profs, u) == {i \in DOMAIN profs : profs[i].user = u}

\* C12: every user that exists has exactly one UserProfile, and no profile
\* belongs to nobody; the step that creates a user leaves that user with a
\* profile whose preferred_currency is KES and whose email_notifications is
\* on; later saves of the user keep the number of profiles.
C12_OneProfilePerUser ==
    /\ [](/\ \A u \in DOMAIN users : Cardinality(ProfilesOf(profiles, u)) = 1
          /\ \A i \in DOMAIN profiles : profiles[i].user \in DOMAIN users)
    /\ [][\A u \in NewUserIds :
            (u \notin DOMAIN users /\ u \in DOMAIN users') =>
                \A i \in ProfilesOf(profiles', u) :
                    /\ profiles'[i].preferred_currency = "KES"
                    /\ profiles'[i].email_notifications]_vars

\* C12 witness: u3 registered, verified their address (a save of the user),
\* and the last request saved the user once more, at a later time than the
\* registration
C12_Witness ==
    /\ "u3" \in DOMAIN users
    /\ users["u3"].is_verified
    /\ response.op = "user_detail_update"
    /\ \E i \in DOMAIN profiles : profiles[i].user = "u3" /\ profiles[i].updated_at > Epoch
    /\ \E r \in verifyTokens : r.user = "u3" /\ r.created_at = Epoch

---------------------------------------------------------------------------
(* Budgets: a transaction moved to another category *)

\* the two expenses u1 has recorded in c1 before the updates start
MoveRows == {TxnRow(id, "u1", BasePayload) : id \in TxnIds}

\* the state after u1 created the two rows of MoveRows
InitMoves ==
    /\ now = Epoch
    /\ transactions = MoveRows
    /\ LET st == recalc_budget([budgets |-> InitialBudgets,
                                queue |-> [b \in BudgetIds |-> 0]],
                               MoveRows, "u1", "c1")
       IN  budgets = st.budgets /\ taskQueue = st.queue
    /\ budgetHistory = <<>>
    /\ alerts = {}
    /\ InitSavings
    /\ InitAuth
    /\ InitBills
    /\ InitRequests
    /\ response = [op |-> "create", status |-> 201]

NextMoves ==
    \/ \E id \in TxnIds, d \in TxnPayloads : TransactionUpdate(id, d)
    \/ \E id \in TxnIds : TransactionDelete(id)
    \/ \E b \in BudgetIds : RunCreateBudgetAlert(b)

SpecMoves == InitMoves /\ [][NextMoves]_vars

\* the amounts budget b of table bs counts when the transactions are txns:
\* expenses of its user in category c dated within its period
CountedBy(txns, bs, b, c) ==
    {t \in txns : /\ t.user = bs[b].user
                  /\ t.category = c
                  /\ t.type = "expense"
                  /\ bs[b].period_start <= Midnight(t.date)
                  /\ Midnight(t.date) <= bs[b].period_end}

---------------------------------------------------------------------------
(* Budgets: two transaction requests handled at the same time *)

\* what a step of a transaction request leaves alone besides the tables it
\* names
BudgetStep(r, next) ==
    /\ budgetRequests' = [budgetRequests EXCEPT ![r] = next]
    /\ UNCHANGED <<now, savingsRequests, budgetHistory, alerts, savingsVars, authVars, billVars>>

\* the view receives the request: create builds a new instance from payload
\* d, update and destroy load the row with get_object (404 when it is gone)
ReqStart(r, op, id, d) ==
    /\ budgetRequests[r].pc = "idle"
    /\ IF op = "create"
       THEN /\ BudgetStep(r, [BudgetIdle EXCEPT !.pc = "write", !.op = op,
                                                !.row = TxnRow("null", "u1", d)])
            /\ UNCHANGED response
       ELSE IF ~\E t \in transactions : t.id = id
       THEN /\ BudgetStep(r, [BudgetIdle EXCEPT !.pc = "done", !.op = op])
            /\ response' = [op |-> op, status |-> 404]
       ELSE LET t == CHOOSE x \in transactions : x.id = id
            IN  /\ BudgetStep(r, [BudgetIdle EXCEPT
                        !.pc = "write", !.op = op,
                        !.row = IF op = "update" THEN TxnRow(id, t.user, d) ELSE t])
                /\ UNCHANGED response
    /\ UNCHANGED <<transactions, budgets, taskQueue>>

\* the ids the table has given out and the instances in progress hold
IdsInUse ==
    {t.id : t \in transactions} \cup {budgetRequests[r].row.id : r \in ReqIds}

\* instance.save() or instance.delete(): for an update track_old_category
\* reads the stored category first (None when the row is gone) and the save
\* inserts the row when no row has its id; afterwards the receiver knows
\* which categories to recompute
ReqWrite(r) ==
    LET q == budgetRequests[r]
    IN  /\ q.pc = "write"
        /\ IF q.op = "create"
           THEN /\ \E free \in TxnIds : free \notin IdsInUse
                /\ LET id  == CHOOSE x \in TxnIds : x \notin IdsInUse
                       row == [q.row EXCEPT !.id = id]
                   IN  /\ transactions' = transactions \cup {row}
                       /\ BudgetStep(r, [q EXCEPT !.pc = "get", !.row = row,
                                                  !.todo = <<row.category>>])
           ELSE IF q.op = "update"
           THEN LET stored == {t \in transactions : t.id = q.row.id}
                    old    == IF stored = {} THEN NoCategory
                              ELSE (CHOOSE t \in stored : TRUE).category
                IN  /\ transactions' = (transactions \ stored) \cup {q.row}
                    /\ BudgetStep(r, [q EXCEPT !.pc = "get",
                            !.todo = IF old # q.row.category
                                     THEN <<old, q.row.category>>
                                     ELSE <<q.row.category>>])
           ELSE /\ transactions' = {t \in transactions : t.id # q.row.id}
                /\ BudgetStep(r, [q EXCEPT !.pc = "get", !.todo = <<q.row.category>>])
        /\ UNCHANGED <<budgets, taskQueue, response>>

\* recalc_budget, first statement: Budget.objects.get for the next category;
\* no category or no budget ends this call of recalc_budget
ReqGetBudget(r) ==
    LET q == budgetRequests[r]
    IN  /\ q.pc = "get"
        /\ q.todo # <<>>
        /\ LET c     == Head(q.todo)
               found == IF c = NoCategory THEN {}
                        ELSE BudgetLookup(budgets, q.row.user, c)
           IN  IF found = {}
               THEN BudgetStep(r, [q EXCEPT !.todo = Tail(q.todo)])
               ELSE LET b == CHOOSE x \in found : TRUE
                    IN  BudgetStep(r, [q EXCEPT !.pc = "aggregate", !.budget = b,
                                                !.snap = budgets[b]])
        /\ UNCHANGED <<transactions, budgets, taskQueue, response>>

\* recalc_budget, second statement: the aggregate over the transactions
ReqAggregate(r) ==
    LET q == budgetRequests[r]
    IN  /\ q.pc = "aggregate"
        /\ BudgetStep(r, [q EXCEPT !.pc = "save",
                !.total = SumAmounts(SpentFilter(transactions, q.row.user,
                                                 Head(q.todo), q.snap))])
        /\ UNCHANGED <<transactions, budgets, taskQueue, response>>

\* recalc_budget, the rest: budget.save(update_fields = spent, updated_at)
\* and create_budget_alert.delay when the instance calls for an alert
ReqSave(r) ==
    LET q  == budgetRequests[r]
        nb == [q.snap EXCEPT !.spent = q.total]
    IN  /\ q.pc = "save"
        /\ budgets' = [budgets EXCEPT ![q.budget].spent = q.total]
        /\ taskQueue' = IF is_alert_threshold_reached(nb) \/ is_over_budget(nb)
                            THEN QueueAdd(taskQueue, q.budget)
                            ELSE taskQueue
        /\ QueueSize(taskQueue') <= MaxQueue
        /\ BudgetStep(r, [q EXCEPT !.pc = "get", !.todo = Tail(q.todo)])
        /\ UNCHANGED <<transactions, response>>

\* the receivers have returned and the view answers
ReqFinish(r) ==
    LET q == budgetRequests[r]
    IN  /\ q.pc = "get"
        /\ q.todo = <<>>
        /\ BudgetStep(r, [q EXCEPT !.pc = "done"])
        /\ response' = [op |-> q.op,
                        status |-> IF q.op = "create" THEN 201
                                   ELSE IF q.op = "update" THEN 200 ELSE 204]
        /\ UNCHANGED <<transactions, budgets, taskQueue>>

\* the payloads of the concurrent requests: expenses of u1 in c1 dated today
ExpensePayloads == {[BasePayload EXCEPT !.amount = a] : a \in 1..MaxAmount}

\* u1 has recorded one expense in c1 before the two requests arrive
InitConcurrentBudget ==
    /\ now = Epoch
    /\ transactions = {TxnRow("t1", "u1", BasePayload)}
    /\ LET st == recalc_budget([budgets |-> InitialBudgets,
                                queue |-> [b \in BudgetIds |-> 0]],
                               transactions, "u1", "c1")
       IN  budgets = st.budgets /\ taskQueue = st.queue
    /\ budgetHistory = <<>>
    /\ alerts = {}
    /\ InitSavings
    /\ InitAuth
    /\ InitBills
    /\ InitRequests
    /\ response = [op |-> "create", status |-> 201]

NextConcurrentBudget ==
    \/ \E r \in ReqIds, op \in {"create", "update", "delete"}, d \in ExpensePayloads :
            ReqStart(r, op, "t1", d)
    \/ \E r \in ReqIds : ReqWrite(r)
    \/ \E r \in ReqIds : ReqGetBudget(r)
    \/ \E r \in ReqIds : ReqAggregate(r)
    \/ \E r \in ReqIds : ReqSave(r)
    \/ \E r \in ReqIds : ReqFinish(r)
    \/ \E b \in BudgetIds : RunCreateBudgetAlert(b)

SpecConcurrentBudget == InitConcurrentBudget /\ [][NextConcurrentBudget]_vars

\* C15: once both concurrent requests have finished, every active budget of
\* a user and category has spent equal to the sum of that user's expense
\* transactions in that category dated within the budget's period.
C15_SpentAfterConcurrentRequests ==
    (\A r \in ReqIds : budgetRequests[r].pc = "done") =>
        \A b \in BudgetIds, c \in CategoryIds :
            BudgetOf(b, budgets[b].user, c) =>
                budgets[b].spent = SumAmounts(CountedBy(transactions, budgets, b, c))

---------------------------------------------------------------------------
(* Savings: transfers between the account and a goal *)

\* the balances of the step's two states differ exactly by moving `moved`
\* from the account of u to goal g (to the account when moved is negative)
Transferred(u, g, moved) ==
    /\ savingsAccounts'[u].balance = savingsAccounts[u].balance - moved
    /\ goals'[g].current_amount = goals[g].current_amount + moved
    /\ \A o \in Users \ {u} : savingsAccounts'[o].balance = savingsAccounts[o].balance
    /\ \A h \in GoalIds \ {g} : goals'[h].current_amount = goals[h].current_amount

\* the step changes no balance and writes no ledger record
NothingMoved ==
    /\ \A o \in Users : savingsAccounts'[o].balance = savingsAccounts[o].balance
    /\ \A h \in GoalIds : goals'[h].current_amount = goals[h].current_amount
    /\ savingsTransactions' = savingsTransactions
    /\ allocations' = allocations

\* u1 puts money into goal g1 from outside, withdraws it into the account and
\* allocates from the account to either goal or to none; u2, who has no goal
\* and no account, asks for the same with u1's goal
NextTransfers ==
    \/ \E a \in 1..MaxAmount : GoalAddFundsView("u1", "g1", a)
    \/ \E a \in 0..MaxAmount : GoalWithdrawFundsView("u1", "g1", a)
    \/ \E g \in GoalIds \cup {NoGoal}, a \in 0..MaxAmount : AllocateToGoal("u1", g, a)
    \/ GoalWithdrawFundsView("u2", "g1", 1)
    \/ AllocateToGoal("u2", "g1", 1)

SpecTransfers == Init /\ [][NextTransfers]_vars

\* C17: an allocate_to_goal answered 200 takes the amount from the account
\* and adds it to the goal; a goal withdrawal answered 200 takes the amount
\* from the goal and adds it to the account; either request answered
\* otherwise changes no balance and writes no ledger record.
C17_TransfersConserveMoney ==
    [][\A u \in Users, a \in 0..MaxAmount :
          /\ \A g \in GoalIds \cup {NoGoal} :
                AllocateToGoal(u, g, a) =>
                    IF response'.status = 200
                    THEN g # NoGoal /\ a > 0 /\ Transferred(u, g, a)
                    ELSE NothingMoved
          /\ \A g \in GoalIds :
                GoalWithdrawFundsView(u, g, a) =>
                    IF response'.status = 200
                    THEN a > 0 /\ Transferred(u, g, 0 - a)
                    ELSE NothingMoved
      ]_vars

\* C17 witness: u1 has allocated 1 from an account holding MaxAmount, which
\* an earlier goal withdrawal had put there
C17_Witness ==
    /\ response.op = "allocate_to_goal"
    /\ response.status = 200
    /\ savingsAccounts["u1"].balance = MaxAmount - 1
    /\ Len(savingsTransactions) = 2
    /\ savingsTransactions[1].transaction_type = "deposit"
    /\ savingsTransactions[2].transaction_type = "withdrawal"
    /\ savingsTransactions[2].amount = 1
    /\ allocations[Len(allocations)].source = "transfer"

---------------------------------------------------------------------------
(* Savings: two transfer requests handled at the same time *)

\* what a step of a savings request leaves alone besides the tables it names
SavingsStep(r, next) ==
    /\ savingsRequests' = [savingsRequests EXCEPT ![r] = next]
    /\ UNCHANGED <<now, budgetRequests, budgetVars, savingsSettings, authVars, billVars>>

\* the request ends with status
SavingsAnswer(r, q, status) ==
    /\ SavingsStep(r, [q EXCEPT !.pc = "done"])
    /\ response' = [op |-> q.op, status |-> status]

\* the view receives the request.  allocate_to_goal: the serializer checks
\* the amount and that the goal is an active goal of the user.
\* withdraw_funds: get_object loads the goal (404 when it is not the
\* user's), the serializer checks the amount, can_withdraw is asked of the
\* loaded instance
TransferStart(r, op, u, g, amount) ==
    LET q == [SavingsIdle EXCEPT !.op = op, !.user = u, !.goal = g, !.amount = amount]
    IN  /\ savingsRequests[r].pc = "idle"
        /\ IF op = "allocate_to_goal"
           THEN IF ~AmountValid(amount) \/ goals[g].user # u \/ goals[g].status # "active"
                THEN SavingsAnswer(r, q, 400)
                ELSE SavingsStep(r, [q EXCEPT !.pc = "load_account"]) /\ UNCHANGED response
           ELSE IF goals[g].user # u
                THEN SavingsAnswer(r, q, 404)
                ELSE IF ~AmountValid(amount) \/ goals[g].current_amount < amount
                THEN SavingsAnswer(r, [q EXCEPT !.goal_row = goals[g]], 400)
                ELSE /\ SavingsStep(r, [q EXCEPT !.pc = "debit_goal", !.goal_row = goals[g]])
                     /\ UNCHANGED response
        /\ UNCHANGED <<savingsAccounts, savingsTransactions, goals, allocations>>

\* the stored tables with the instances request q holds in place of the rows
InstanceView(q) ==
    [accounts |-> [savingsAccounts EXCEPT ![q.user] = q.account],
     stx      |-> savingsTransactions,
     goals    |-> [goals EXCEPT ![q.goal] = q.goal_row],
     allocs   |-> allocations]

\* save(update_fields = balance, updated_at) of the account instance
SaveAccount(u, inst) ==
    savingsAccounts' = [savingsAccounts EXCEPT ![u].balance = inst.balance]

\* save(update_fields = current_amount, status, completed_at, updated_at) of
\* the goal instance
SaveGoal(g, inst) ==
    goals' = [goals EXCEPT ![g].current_amount = inst.current_amount,
                           ![g].status = inst.status,
                           ![g].completed_at_set = inst.completed_at_set]

\* allocate_to_goal: account = self.get_object(), then can_withdraw
AllocateLoadAccount(r) ==
    LET q    == savingsRequests[r]
        sv   == GetOrCreateAccount(SavingsState, q.user)
        q1   == [q EXCEPT !.account = sv.accounts[q.user]]
    IN  /\ q.pc = "load_account"
        /\ savingsAccounts' = sv.accounts
        /\ IF q1.account.balance >= q.amount
           THEN SavingsStep(r, [q1 EXCEPT !.pc = "load_goal"]) /\ UNCHANGED response
           ELSE SavingsAnswer(r, q1, 400)
        /\ UNCHANGED <<savingsTransactions, goals, allocations>>

\* allocate_to_goal: SavingsGoal.objects.get(id, user, status = active)
AllocateLoadGoal(r) ==
    LET q == savingsRequests[r]
    IN  /\ q.pc = "load_goal"
        /\ IF goals[q.goal].user = q.user /\ goals[q.goal].status = "active"
           THEN /\ SavingsStep(r, [q EXCEPT !.pc = "debit_account", !.goal_row = goals[q.goal]])
                /\ UNCHANGED response
           ELSE SavingsAnswer(r, q, 404)
        /\ UNCHANGED <<savingsAccounts, savingsTransactions, goals, allocations>>

\* allocate_to_goal: account.withdraw_funds(amount) on the loaded instance
AllocateDebitAccount(r) ==
    LET q   == savingsRequests[r]
        sv  == InstanceView(q)
        res == AccountWithdrawFunds(sv, q.user, q.amount)
    IN  /\ q.pc = "debit_account"
        /\ IF AccountWithdrawOk(sv, q.user, q.amount)
           THEN /\ SaveAccount(q.user, res.accounts[q.user])
                /\ savingsTransactions' = res.stx
                /\ SavingsStep(r, [q EXCEPT !.pc = "credit_goal",
                                            !.account = res.accounts[q.user]])
                /\ UNCHANGED response
           ELSE /\ SavingsAnswer(r, q, 400)
                /\ UNCHANGED <<savingsAccounts, savingsTransactions>>
        /\ UNCHANGED <<goals, allocations>>

\* allocate_to_goal: goal.add_funds(amount, source = transfer) on the loaded
\* instance, then the answer
AllocateCreditGoal(r) ==
    LET q   == savingsRequests[r]
        res == GoalAddFunds(InstanceView(q), q.goal, q.amount, "transfer")
    IN  /\ q.pc = "credit_goal"
        /\ SaveGoal(q.goal, res.goals[q.goal])
        /\ allocations' = res.allocs
        /\ SavingsAnswer(r, [q EXCEPT !.goal_row = res.goals[q.goal]], 200)
        /\ UNCHANGED <<savingsAccounts, savingsTransactions>>

\* withdraw_funds: goal.withdraw_funds(amount) on the loaded instance
WithdrawDebitGoal(r) ==
    LET q   == savingsRequests[r]
        sv  == InstanceView(q)
        res == GoalWithdrawFunds(sv, q.goal, q.amount)
    IN  /\ q.pc = "debit_goal"
        /\ IF GoalWithdrawOk(sv, q.goal, q.amount)
           THEN /\ SaveGoal(q.goal, res.goals[q.goal])
                /\ allocations' = res.allocs
                /\ SavingsStep(r, [q EXCEPT !.pc = "load_account_back",
                                            !.goal_row = res.goals[q.goal]])
                /\ UNCHANGED response
           ELSE /\ SavingsAnswer(r, q, 400)
                /\ UNCHANGED <<goals, allocations>>
        /\ UNCHANGED <<savingsAccounts, savingsTransactions>>

\* withdraw_funds: SavingsAccount.objects.get_or_create(user)
WithdrawLoadAccount(r) ==
    LET q  == savingsRequests[r]
        sv == GetOrCreateAccount(SavingsState, q.user)
    IN  /\ q.pc = "load_account_back"
        /\ savingsAccounts' = sv.accounts
        /\ SavingsStep(r, [q EXCEPT !.pc = "credit_account",
                                    !.account = sv.accounts[q.user]])
        /\ UNCHANGED <<savingsTransactions, goals, allocations, response>>

\* withdraw_funds: account.add_funds(amount) on the loaded instance, then
\* the answer
WithdrawCreditAccount(r) ==
    LET q   == savingsRequests[r]
        res == AccountAddFunds(InstanceView(q), q.user, q.amount)
    IN  /\ q.pc = "credit_account"
        /\ SaveAccount(q.user, res.accounts[q.user])
        /\ savingsTransactions' = res.stx
        /\ SavingsAnswer(r, [q EXCEPT !.account = res.accounts[q.user]], 200)
        /\ UNCHANGED <<goals, allocations>>

\* what u1 did before the two requests arrive: put MaxAmount into g1 from
\* outside and withdrew 1 of it into the account
InitialTransfers ==
    AccountAddFunds(
        GoalWithdrawFunds(
            GoalAddFunds([accounts |-> InitialAccounts, stx |-> <<>>,
                          goals |-> InitialGoals, allocs |-> <<>>],
                         "g1", MaxAmount, "manual"),
            "g1", 1),
        "u1", 1)

InitConcurrentSavings ==
    /\ now = Epoch
    /\ transactions = {}
    /\ budgets = InitialBudgets
    /\ budgetHistory = <<>>
    /\ alerts = {}
    /\ taskQueue = [b \in BudgetIds |-> 0]
    /\ savingsAccounts = InitialTransfers.accounts
    /\ savingsTransactions = InitialTransfers.stx
    /\ goals = InitialTransfers.goals
    /\ allocations = InitialTransfers.allocs
    /\ savingsSettings = [u \in Users |->
            [exists |-> FALSE, auto_save_enabled |-> FALSE, auto_save_percentage |-> 0]]
    /\ InitAuth
    /\ InitBills
    /\ InitRequests
    /\ response = [op |-> "withdraw_funds", status |-> 200]

NextConcurrentSavings ==
    \/ \E r \in ReqIds, op \in {"allocate_to_goal", "withdraw_funds"},
          g \in GoalIds, a \in 1..MaxAmount : TransferStart(r, op, "u1", g, a)
    \/ \E r \in ReqIds : AllocateLoadAccount(r)
    \/ \E r \in ReqIds : AllocateLoadGoal(r)
    \/ \E r \in ReqIds : AllocateDebitAccount(r)
    \/ \E r \in ReqIds : AllocateCreditGoal(r)
    \/ \E r \in ReqIds : WithdrawDebitGoal(r)
    \/ \E r \in ReqIds : WithdrawLoadAccount(r)
    \/ \E r \in ReqIds : WithdrawCreditAccount(r)

SpecConcurrentSavings == InitConcurrentSavings /\ [][NextConcurrentSavings]_vars

\* the money of u1: the account balance and the current_amount of the goals
MoneyOf(accts, gs) ==
    accts["u1"].balance + gs["g1"].current_amount + gs["g2"].current_amount

\* C16: while two concurrent transfer requests of u1 run, the account balance
\* is never negative, and once both have finished the account balance plus
\* the goals' current_amounts is what it was before them.
C16_ConcurrentTransfersConserve ==
    /\ \A u \in Users : savingsAccounts[u].balance >= 0
    /\ (\A r \in ReqIds : savingsRequests[r].pc = "done") =>
            MoneyOf(savingsAccounts, goals) =
                MoneyOf(InitialTransfers.accounts, InitialTransfers.goals)

====
